---- MODULE Spec2Model ----
(***************************************************************************)
(* Model of steamgriddb_setter.py: the binary shortcuts.vdf extractor      *)
(* (SteamShortcutManager.get_non_steam_games), the installation and user   *)
(* directory lookup, and the orchestration loop of main().                 *)
(*                                                                         *)
(* Bytes are integers 0..255, byte strings are sequences of bytes, decoded *)
(* strings are sequences of code points, file names are sequences of       *)
(* character codes.  Positions in a byte string are 1-based.               *)
(***************************************************************************)
EXTENDS Integers, Sequences, FiniteSets, TLC

(***************************************************************************)
(* Bounds of the explored inputs.                                          *)
(***************************************************************************)
MaxEntries == 2
MaxUsers == 2

None == "None"

Min(S) == CHOOSE x \in S : \A y \in S : x <= y

RECURSIVE Concat(_)
Concat(ss) == IF ss = <<>> THEN <<>> ELSE Head(ss) \o Concat(Tail(ss))

(***************************************************************************)
(* Byte literals of the pattern and of the container format.               *)
(***************************************************************************)
b_appid == <<97, 112, 112, 105, 100>>
b_appname == <<97, 112, 112, 110, 97, 109, 101>>
b_AppName == <<65, 112, 112, 78, 97, 109, 101>>
b_exe == <<101, 120, 101>>
b_Exe == <<69, 120, 101>>
b_tags == <<116, 97, 103, 115>>
b_shortcuts == <<115, 104, 111, 114, 116, 99, 117, 116, 115>>
b_StartDir == <<83, 116, 97, 114, 116, 68, 105, 114>>
b_icon == <<105, 99, 111, 110>>
b_IsHidden == <<73, 115, 72, 105, 100, 100, 101, 110>>
b_HollowKnight == <<72, 111, 108, 108, 111, 119, 32, 75, 110, 105, 103, 104, 116>>
b_usr_bin_hollow_knight ==
    <<47, 117, 115, 114, 47, 98, 105, 110, 47, 104, 111, 108, 108, 111, 119,
      45, 107, 110, 105, 103, 104, 116>>
b_knight == <<107, 110, 105, 103, 104, 116>>

(***************************************************************************)
(* re.IGNORECASE on a bytes pattern: ASCII letters compare case-folded.    *)
(***************************************************************************)
Fold(b) == IF b >= 65 /\ b <= 90 THEN b + 32 ELSE b

\* A literal of the pattern matches at position p of s.
Lit(s, p, lit) ==
    /\ p >= 1
    /\ p + Len(lit) - 1 <= Len(s)
    /\ \A i \in 1..Len(lit) : Fold(s[p + i - 1]) = Fold(lit[i])

\* Position of the first 0x08 byte at or after p (Len(s)+1 when there is none):
\* the class [^\x08] cannot be repeated past it.
FirstEight(s, p) == Min({i \in p..Len(s) : s[i] = 8} \cup {Len(s) + 1})

(***************************************************************************)
(* The literals of game_pattern, in order.                                 *)
(***************************************************************************)
K_appid == <<0, 2>> \o b_appid \o <<0>>
K_appname == <<1>> \o b_appname \o <<0>>
K_exe == <<0, 1>> \o b_exe \o <<0>>
K_field == <<0, 1>>
K_tags == <<0>> \o b_tags \o <<0>>
K_end == <<8, 8>>

\* The candidate a lazy quantifier settles on: the one with the smallest end
\* position q among those that let the rest of the pattern match.
Shortest(cands, none) ==
    IF cands = {} THEN none ELSE CHOOSE c \in cands : \A d \in cands : c.q <= d.q

NoTags == [q |-> 0, end |-> 0, g4 |-> <<>>]
NoSkip == [q |-> 0, t |-> NoTags]
NoExe == [q |-> 0, exe |-> <<>>, k |-> NoSkip]
NoName == [q |-> 0, name |-> <<>>, e |-> NoExe]
NoMatch == [ok |-> FALSE, appid |-> <<>>, name |-> <<>>, exe |-> <<>>,
            g4 |-> <<>>, end |-> 0]

(***************************************************************************)
(* (?:\x01([^\x08]+?)|)\x08\x08 at position p: the first alternative with  *)
(* the shortest group that lets \x08\x08 follow, else the empty            *)
(* alternative.  end is the position after the match, 0 on failure; g4 is  *)
(* the fourth group.                                                       *)
(***************************************************************************)
EmptyTags(s, p) ==
    IF Lit(s, p, K_end) THEN [q |-> p, end |-> p + 2, g4 |-> <<>>] ELSE NoTags

TagsAlt(s, p) ==
    Shortest({[q |-> q, end |-> q + 2, g4 |-> SubSeq(s, p + 1, q - 1)] :
                 q \in {r \in (p + 2)..FirstEight(s, p + 1) :
                           p <= Len(s) /\ s[p] = 1 /\ Lit(s, r, K_end)}},
             EmptyTags(s, p))

\* .+?\x00tags\x00(...)\x08\x08 at position p: the shortest skip of at least
\* one byte (any byte, re.DOTALL) after which the rest matches.
SkipToTags(s, p) ==
    Shortest({c \in {[q |-> q, t |-> TagsAlt(s, q + Len(K_tags))] :
                        q \in {r \in (p + 1)..Len(s) : Lit(s, r, K_tags)}} :
                 c.t.end # 0},
             NoSkip)

\* ([^\x08]+?)\x00\x01.+?... at position p: the shortest exe value of at least
\* one byte after which the rest matches.
ExeGroup(s, p) ==
    Shortest({c \in {[q |-> q, exe |-> SubSeq(s, p, q - 1),
                      k |-> SkipToTags(s, q + Len(K_field))] :
                        q \in {r \in (p + 1)..FirstEight(s, p) : Lit(s, r, K_field)}} :
                 c.k.q # 0},
             NoExe)

\* ([^\x08]+?)\x00\x01exe\x00... at position p: the shortest name of at least
\* one byte after which the rest matches.
NameGroup(s, p) ==
    Shortest({c \in {[q |-> q, name |-> SubSeq(s, p, q - 1),
                      e |-> ExeGroup(s, q + Len(K_exe))] :
                        q \in {r \in (p + 1)..FirstEight(s, p) : Lit(s, r, K_exe)}} :
                 c.e.q # 0},
             NoName)

\* The match built from the groups.
MatchOf(appid, n) ==
    IF n.q = 0 THEN NoMatch
    ELSE [ok |-> TRUE, appid |-> appid, name |-> n.name, exe |-> n.e.exe,
          g4 |-> n.e.k.t.g4, end |-> n.e.k.t.end]

\* game_pattern matched at position p: \x00\x02appid\x00(.{4})\x01appname\x00...
game_pattern(s, p) ==
    IF Lit(s, p, K_appid) /\ Lit(s, p + Len(K_appid) + 4, K_appname)
    THEN MatchOf(SubSeq(s, p + Len(K_appid), p + Len(K_appid) + 3),
                 NameGroup(s, p + Len(K_appid) + 4 + Len(K_appname)))
    ELSE NoMatch

\* game_pattern.findall: leftmost matches, scanning resumed after each match.
\* The scan moves straight to the next position where the first literal of the
\* pattern matches; no match can start anywhere else.
RECURSIVE FindAllFrom(_, _)
Resume(s, q, m) ==
    IF m.ok
    THEN <<[appid |-> m.appid, name |-> m.name, exe |-> m.exe, g4 |-> m.g4]>>
         \o FindAllFrom(s, m.end)
    ELSE FindAllFrom(s, q + 1)

TryAt(s, start) ==
    IF start.q = 0 THEN <<>> ELSE Resume(s, start.q, game_pattern(s, start.q))

FindAllFrom(s, p) ==
    TryAt(s, Shortest({[q |-> q] : q \in {r \in p..Len(s) : Lit(s, r, K_appid)}},
                      [q |-> 0]))

findall(s) == FindAllFrom(s, 1)

(***************************************************************************)
(* int.from_bytes(b, byteorder='little', signed=False) of 4 bytes.         *)
(***************************************************************************)
from_bytes_low16(b) == b[1] + 256 * b[2]
from_bytes_little(b) == b[1] + 256 * b[2] + 65536 * b[3] + 16777216 * b[4]

\* (app_id << 32) | 0x02000000, kept as its high and low 32-bit words.
grid_id_of(app_id) == [hi |-> app_id, lo |-> 33554432]

(***************************************************************************)
(* bytes.decode('utf-8'), strict: the code points, or an error.            *)
(***************************************************************************)
IsCont(b) == b >= 128 /\ b <= 191

RECURSIVE Utf8From(_, _)
Utf8From(b, i) ==
    IF i > Len(b) THEN [ok |-> TRUE, cps |-> <<>>]
    ELSE
      LET c == b[i]
          n == IF c < 128 THEN 1
               ELSE IF c >= 194 /\ c <= 223 THEN 2
               ELSE IF c >= 224 /\ c <= 239 THEN 3
               ELSE IF c >= 240 /\ c <= 244 THEN 4
               ELSE 0
          lo2 == IF c = 224 THEN 160 ELSE IF c = 240 THEN 144 ELSE 128
          hi2 == IF c = 237 THEN 159 ELSE IF c = 244 THEN 143 ELSE 191
          wellformed ==
              /\ n > 0
              /\ i + n - 1 <= Len(b)
              /\ n >= 2 => (b[i + 1] >= lo2 /\ b[i + 1] <= hi2)
              /\ \A j \in 2..(n - 1) : IsCont(b[i + j])
          cp == IF n = 1 THEN c
                ELSE IF n = 2 THEN (c - 192) * 64 + (b[i + 1] - 128)
                ELSE IF n = 3 THEN (c - 224) * 4096 + (b[i + 1] - 128) * 64
                                   + (b[i + 2] - 128)
                ELSE (c - 240) * 262144 + (b[i + 1] - 128) * 4096
                     + (b[i + 2] - 128) * 64 + (b[i + 3] - 128)
      IN  IF ~wellformed THEN [ok |-> FALSE, cps |-> <<>>]
          ELSE LET rest == Utf8From(b, i + n)
               IN  IF rest.ok THEN [ok |-> TRUE, cps |-> <<cp>> \o rest.cps]
                   ELSE rest

decode_utf8(b) == Utf8From(b, 1)


(***************************************************************************)
(* str.lower() on ASCII text, the substring test `a in b`, and the text of *)
(* f"{app_id}" (decimal digits).                                           *)
(***************************************************************************)
lower(t) == [i \in 1..Len(t) |-> IF t[i] >= 65 /\ t[i] <= 90 THEN t[i] + 32 ELSE t[i]]

HasPrefix(t, pre) == Len(pre) <= Len(t) /\ SubSeq(t, 1, Len(pre)) = pre

contains(t, sub) ==
    \E i \in 0..(Len(t) - Len(sub)) : SubSeq(t, i + 1, i + Len(sub)) = sub

RECURSIVE str_int(_)
str_int(n) == IF n < 10 THEN <<48 + n>> ELSE str_int(n \div 10) \o <<48 + (n % 10)>>

c_p_png == <<112, 46, 112, 110, 103>>
c_png == <<46, 112, 110, 103>>
c_hero_png == <<95, 104, 101, 114, 111, 46, 112, 110, 103>>
c_logo_png == <<95, 108, 111, 103, 111, 46, 112, 110, 103>>

\* f"{app_id}p.png", f"{app_id}_hero.png", f"{app_id}_logo.png"
grid_file(app_id) == str_int(app_id) \o c_p_png
hero_file_wide(app_id) == str_int(app_id) \o c_png
hero_file(app_id) == str_int(app_id) \o c_hero_png
logo_file(app_id) == str_int(app_id) \o c_logo_png

\* grid_path.glob(f"{app_id}*") over the names of the directory
glob_app_id(names, app_id) == {f \in names : HasPrefix(f, str_int(app_id))}

\* sorted(matching_files): names in lexicographic order
LexLess(a, b) ==
    \/ Len(a) < Len(b) /\ SubSeq(b, 1, Len(a)) = a
    \/ \E i \in 1..Min({Len(a), Len(b)}) :
          /\ SubSeq(a, 1, i - 1) = SubSeq(b, 1, i - 1)
          /\ a[i] < b[i]

RECURSIVE sorted(_)
sorted(S) ==
    IF S = {} THEN <<>>
    ELSE LET m == CHOOSE x \in S : \A y \in S \ {x} : LexLess(x, y)
         IN  <<m>> \o sorted(S \ {m})

(***************************************************************************)
(* Layout of shortcuts.vdf as the pattern expects it: a root object        *)
(* "shortcuts" holding one object per entry, keyed by its index, each      *)
(* closed by the end markers of its tags object and of the entry.          *)
(***************************************************************************)
EntryBytes(i, e) ==
    <<0, 48 + i - 1>> \o K_appid \o e.appid
    \o <<1>> \o (IF e.legacy THEN b_AppName ELSE b_appname) \o <<0>> \o e.name
    \o <<0, 1>> \o (IF e.legacy THEN b_Exe ELSE b_exe) \o <<0>> \o e.exe \o <<0>>
    \o e.opt \o K_tags \o e.tags \o K_end

Container(es) ==
    <<0>> \o b_shortcuts \o <<0>>
    \o Concat([i \in 1..Len(es) |-> EntryBytes(i, es[i])])
    \o K_end

VdfAbsent == [kind |-> "absent", bytes |-> <<>>]
VdfUnreadable == [kind |-> "unreadable", bytes |-> <<>>]
VdfFile(b) == [kind |-> "file", bytes |-> b]

\* Optional-field regions between the exe value and the tags key.
opt_StartDir == <<1>> \o b_StartDir \o <<0, 47, 104, 0>>
opt_none == <<>>
opt_IntFirst == <<2>> \o b_IsHidden \o <<0, 0, 0, 0, 0, 1>> \o b_icon \o <<0, 0>>
opt_With08 == opt_StartDir \o <<2>> \o b_IsHidden \o <<0, 8, 8, 8, 8>>
opt_TagsValue == <<1>> \o b_icon \o <<0>> \o b_tags \o <<0>> \o opt_StartDir
                 \o <<2>> \o b_IsHidden \o <<0, 8, 8, 0, 0>>

tags_none == <<>>
tags_one == <<1, 48, 0, 102, 97, 118, 0>>
tags_with08 == <<1, 48, 0, 97, 8, 98, 0>>

appid_HK == <<148, 170, 4, 0>>
appid_0808 == <<8, 8, 8, 8>>
appid_12 == <<12, 0, 0, 0>>
appid_123 == <<123, 0, 0, 0>>

BaseEntry ==
    [appid |-> appid_HK, name |-> b_HollowKnight, exe |-> b_usr_bin_hollow_knight,
     opt |-> opt_StartDir, tags |-> tags_none, legacy |-> FALSE]

\* The entries explored: the base entry with one component varied.
Entries ==
    {BaseEntry}
    \cup {[BaseEntry EXCEPT !.appid = a] : a \in {appid_0808, appid_12}}
    \cup {[BaseEntry EXCEPT !.name = n] : n \in {<<66>>, <<>>, <<255>>, <<195, 169>>}}
    \cup {[BaseEntry EXCEPT !.exe = x] : x \in {<<98>>, <<>>, <<47, 192>>}}
    \cup {[BaseEntry EXCEPT !.opt = o] :
             o \in {opt_none, opt_IntFirst, opt_With08, opt_TagsValue}}
    \cup {[BaseEntry EXCEPT !.tags = t] : t \in {tags_one, tags_with08}}
    \cup {[BaseEntry EXCEPT !.legacy = TRUE]}

EntryLists == UNION {[1..n -> Entries] : n \in 0..MaxEntries}


(***************************************************************************)
(* The file system and the remote service, as far as main() sees them.     *)
(***************************************************************************)
\* Optional values: None, or a value.
NoText == [some |-> FALSE, val |-> <<>>]
Text(t) == [some |-> TRUE, val |-> t]
NoId == [some |-> FALSE, val |-> 0]
Id(n) == [some |-> TRUE, val |-> n]
NoUrl == [some |-> FALSE, val |-> ""]
Url(u) == [some |-> TRUE, val |-> u]
NoCode == [some |-> FALSE, val |-> 0]
Code(n) == [some |-> TRUE, val |-> n]
\* A directory that does not exist, or its names.
NoDir == [exists |-> FALSE, names |-> {}]
Dir(names) == [exists |-> TRUE, names |-> names]

\* possible_paths of find_steam_path, in order
possible_paths == <<"home_steam", "local_share", "usr_share">>

E12 == [BaseEntry EXCEPT !.appid = appid_12]
E123 == [BaseEntry EXCEPT !.appid = appid_123, !.name = <<66>>, !.exe = <<98>>]

n_1001 == <<49, 48, 48, 49>>
n_1002 == <<49, 48, 48, 50>>
n_1003 == <<49, 48, 48, 51>>
n_1004 == <<49, 48, 48, 52>>
n_1005 == <<49, 48, 48, 53>>
n_anonymous == <<97, 99>>
n_1007 == <<49, 48, 48, 55>>

\* Entries a userdata folder may hold, in iteration order: a name, whether it
\* is a directory, its config/shortcuts.vdf and its config/grid.
UserDirTable ==
    << [name |-> n_1001, is_dir |-> TRUE, vdf |-> VdfAbsent, grid |-> NoDir],
       [name |-> n_1004, is_dir |-> TRUE, vdf |-> VdfFile(Container(<<E12>>)),
        grid |-> Dir({grid_file(12), grid_file(123), hero_file(12)})],
       [name |-> n_1002, is_dir |-> TRUE, vdf |-> VdfUnreadable, grid |-> Dir({})],
       [name |-> n_anonymous, is_dir |-> TRUE, vdf |-> VdfFile(Container(<<E12>>)),
        grid |-> Dir({})],
       [name |-> n_1005, is_dir |-> TRUE, vdf |-> VdfFile(Container(<<E12, E123>>)),
        grid |-> NoDir],
       [name |-> n_1003, is_dir |-> TRUE, vdf |-> VdfFile(<<>>),
        grid |-> Dir({grid_file(12)})],
       [name |-> n_1007, is_dir |-> FALSE, vdf |-> VdfAbsent, grid |-> NoDir] >>

RECURSIVE Pick(_, _)
Pick(S, i) ==
    IF i > Len(UserDirTable) THEN <<>>
    ELSE (IF i \in S THEN <<UserDirTable[i]>> ELSE <<>>) \o Pick(S, i + 1)

\* Listings of userdata: at most MaxUsers entries of the table.
Listings ==
    {Pick(S, 1) : S \in {T \in SUBSET (1..Len(UserDirTable)) : Cardinality(T) <= MaxUsers}}

\* Installations: the --steam-path argument, the paths that exist and the path
\* that holds a userdata folder.
Installs ==
    { [arg |-> None, exists |-> {}, userdata_at |-> None],
      [arg |-> None, exists |-> {"local_share"}, userdata_at |-> "local_share"],
      [arg |-> None, exists |-> {"home_steam", "usr_share"},
       userdata_at |-> "usr_share"],
      [arg |-> "arg_path", exists |-> {"home_steam"}, userdata_at |-> "home_steam"],
      [arg |-> "arg_path", exists |-> {"arg_path"}, userdata_at |-> "arg_path"] }

GameNames == {NoText, Text(b_knight)}

\* data["data"][0]["id"] of a search, or None
SearchResults == {NoId, Id(0), Id(4242)}
\* data["data"][0]["url"] of an artwork lookup, or None
UrlResults == {NoUrl, Url("https://cdn/art.png")}
DownloadOutcomes == {"request_failed", "write_failed", "saved"}

\* Python truth value of an Optional int, str
truthy_int(v) == v.some /\ v.val # 0
truthy_str(v) == v.some /\ v.val # ""
truthy_text(v) == v.some /\ v.val # <<>>

VARIABLES
    args,            \* parsed command line
    fs_exists,       \* installation paths that exist
    fs_userdata_at,  \* the path holding the userdata folder, or None
    userdata,        \* the entries of the userdata folder
    grid,            \* per entry of userdata: config/grid
    grid0,           \* grid at the start of the run
    pc,              \* position in the program
    ret,             \* position get_non_steam_games returns to
    steam_path, user_dirs, ui,
    vdf,             \* the shortcuts.vdf at shortcut_path
    entries,         \* the entries the container at shortcut_path was built from
    matches,         \* matches of findall still to be decoded
    games,
    gi, game_id, urls, success_count, total_processed,
    net_calls,       \* endpoints requests.get was called on so far
    exit_code,
    visited,         \* users for which get_non_steam_games returned, with result
    attempted,       \* art categories download_image was called for, this game
    written,         \* file names opened for writing, this game
    saved,           \* art categories whose download succeeded, this game
    reported         \* list mode: (user, app_id, files printed)

vars == <<args, fs_exists, fs_userdata_at, userdata, grid, grid0, pc, ret,
          steam_path, user_dirs, ui, vdf, entries, matches, games, gi, game_id,
          urls, success_count, total_processed, net_calls, exit_code, visited,
          attempted, written, saved, reported>>

fsVars == <<args, fs_exists, fs_userdata_at, userdata, grid0>>
mainVars == <<steam_path, user_dirs, ui, gi, game_id, urls, success_count,
              total_processed, net_calls, exit_code, visited, attempted,
              written, saved, reported, grid>>
gameVars == <<game_id, urls, success_count, attempted, written, saved>>

NoUrls == [grid |-> NoUrl, hero |-> NoUrl, logo |-> NoUrl]

IdleMain ==
    /\ steam_path = None /\ user_dirs = <<>> /\ ui = 0
    /\ gi = 0 /\ game_id = NoId /\ urls = NoUrls
    /\ success_count = 0 /\ total_processed = 0
    /\ net_calls = {} /\ exit_code = NoCode
    /\ visited = <<>> /\ attempted = {} /\ written = {} /\ saved = {}
    /\ reported = <<>>

(***************************************************************************)
(* SteamShortcutManager.get_non_steam_games                                *)
(***************************************************************************)
\* except Exception: print, return []
gnsg_except_reraise(r) == [games |-> <<>>, pc |-> "crashed"]
gnsg_except(r) == [games |-> <<>>, pc |-> r]

\* if not shortcut_path.is_file(): return []
gnsg_is_file ==
    /\ pc = "gnsg"
    /\ IF vdf.kind = "absent"
       THEN games' = <<>> /\ pc' = ret
       ELSE games' = games /\ pc' = "gnsg_read"
    /\ UNCHANGED <<fsVars, mainVars, ret, vdf, entries, matches>>

\* shortcut_bytes = read_bytes(); games = []; findall
gnsg_read ==
    /\ pc = "gnsg_read"
    /\ IF vdf.kind = "unreadable"
       THEN /\ games' = gnsg_except(ret).games
            /\ pc' = gnsg_except(ret).pc
            /\ matches' = <<>>
       ELSE /\ matches' = findall(vdf.bytes)
            /\ games' = <<>>
            /\ pc' = "gnsg_loop"
    /\ UNCHANGED <<fsVars, mainVars, ret, vdf, entries>>

\* one iteration of the loop over the matches
gnsg_decode ==
    /\ pc = "gnsg_loop"
    /\ matches # <<>>
    /\ LET game_match == Head(matches)
           app_id == from_bytes_little(game_match.appid)
           name == decode_utf8(game_match.name)
           exe == decode_utf8(game_match.exe)
       IN  IF name.ok /\ exe.ok
           THEN /\ games' = Append(games, [name |-> name.cps, exe |-> exe.cps,
                                           app_id |-> app_id,
                                           grid_id |-> grid_id_of(app_id)])
                /\ matches' = Tail(matches)
                /\ pc' = pc
           ELSE /\ games' = gnsg_except(ret).games
                /\ pc' = gnsg_except(ret).pc
                /\ matches' = <<>>
    /\ UNCHANGED <<fsVars, mainVars, ret, vdf, entries>>

\* return games
gnsg_return ==
    /\ pc = "gnsg_loop"
    /\ matches = <<>>
    /\ pc' = ret
    /\ UNCHANGED <<fsVars, mainVars, ret, vdf, entries, matches, games>>

ExtractNext == gnsg_is_file \/ gnsg_read \/ gnsg_decode \/ gnsg_return

\* The extractor alone, on every explored container.
InitExtract ==
    /\ pc = "gnsg" /\ ret = "returned"
    /\ entries \in EntryLists
    /\ vdf \in {VdfFile(Container(entries))}
               \cup (IF entries = <<>>
                     THEN {VdfAbsent, VdfUnreadable, VdfFile(<<>>)} ELSE {})
    /\ matches = <<>> /\ games = <<>>
    /\ args = [steam_path |-> None, game_name |-> NoText, list_shortcuts |-> FALSE]
    /\ fs_exists = {} /\ fs_userdata_at = None /\ userdata = <<>>
    /\ grid = <<>> /\ grid0 = <<>>
    /\ IdleMain

SpecExtract == InitExtract /\ [][ExtractNext]_vars


(***************************************************************************)
(* SteamShortcutManager: installation and user directories                 *)
(***************************************************************************)
\* the first of possible_paths that exists, or None
find_steam_path ==
    LET found == {i \in 1..Len(possible_paths) : possible_paths[i] \in fs_exists}
    IN  IF found = {} THEN None ELSE possible_paths[Min(found)]

\* str.isdigit of a directory name
isdigit(n) == n # <<>> /\ \A i \in 1..Len(n) : n[i] >= 48 /\ n[i] <= 57

RECURSIVE SelectUsers(_)
SelectUsers(i) ==
    IF i > Len(userdata) THEN <<>>
    ELSE (IF userdata[i].is_dir /\ isdigit(userdata[i].name) THEN <<i>> ELSE <<>>)
         \o SelectUsers(i + 1)

\* the numeric sub-directories of <steam_path>/userdata, as indexes of userdata
find_user_dirs(sp) == IF sp # fs_userdata_at THEN <<>> ELSE SelectUsers(1)

(***************************************************************************)
(* SteamGridDBAPI.download_image: the result and the directory afterwards. *)
(* The request may fail before anything is written, or the transfer may    *)
(* fail after the file was opened for writing.                             *)
(***************************************************************************)
download_image(outcome, dir, name) ==
    IF outcome = "request_failed"
    THEN [ok |-> FALSE, opened |-> FALSE, dir |-> dir]
    ELSE [ok |-> outcome = "saved", opened |-> TRUE, dir |-> Dir(dir.names \cup {name})]

(***************************************************************************)
(* main                                                                    *)
(***************************************************************************)
\* if args.game_name and args.game_name.lower() not in name.lower(): continue
\* (names and filters of the explored inputs are ASCII)
filtered_out(game_name, name) ==
    truthy_text(game_name) /\ ~contains(lower(name), lower(game_name.val))

\* if args.list_shortcuts:
list_mode_ignored(a) == FALSE
list_mode(a) == a.list_shortcuts

\* return 0 at the end of main
summary_exit_strict(processed) == IF processed > 0 THEN Code(0) ELSE Code(1)
summary_exit(processed) == Code(0)

\* SteamShortcutManager(args.steam_path); ValueError -> return 1
main_init ==
    /\ pc = "main"
    /\ LET sp == IF args.steam_path # None THEN args.steam_path ELSE find_steam_path
       IN  /\ steam_path' = sp
           /\ IF sp = None
              THEN exit_code' = Code(1) /\ pc' = "done"
              ELSE exit_code' = exit_code /\ pc' = "main_users"
    /\ UNCHANGED <<fsVars, grid, ret, vdf, entries, matches, games, user_dirs, ui,
                   gi, gameVars, total_processed, net_calls, visited, reported>>

\* user_dirs = steam.find_user_dirs(); none -> return 1
main_users ==
    /\ pc = "main_users"
    /\ user_dirs' = find_user_dirs(steam_path)
    /\ IF user_dirs' = <<>>
       THEN exit_code' = Code(1) /\ pc' = "done" /\ ui' = ui
       ELSE exit_code' = exit_code /\ pc' = "user_loop" /\ ui' = 1
    /\ total_processed' = 0
    /\ UNCHANGED <<fsVars, grid, ret, vdf, entries, matches, games, steam_path,
                   gi, gameVars, net_calls, visited, reported>>

\* for user_dir in user_dirs: games = steam.get_non_steam_games(user_dir)
main_user ==
    /\ pc = "user_loop"
    /\ IF ui > Len(user_dirs)
       THEN /\ pc' = "summary"
            /\ UNCHANGED <<vdf, ret, matches, games>>
       ELSE /\ vdf' = userdata[user_dirs[ui]].vdf
            /\ ret' = "main_games"
            /\ matches' = <<>>
            /\ games' = <<>>
            /\ pc' = "gnsg"
    /\ UNCHANGED <<fsVars, mainVars, entries>>

\* if not games: continue
main_games ==
    /\ pc = "main_games"
    /\ visited' = Append(visited, [user |-> user_dirs[ui], games |-> games])
    /\ IF games = <<>>
       THEN ui' = ui + 1 /\ pc' = "user_loop" /\ gi' = gi
       ELSE ui' = ui /\ pc' = "game_loop" /\ gi' = 1
    /\ UNCHANGED <<fsVars, grid, ret, vdf, entries, matches, games, steam_path,
                   user_dirs, gameVars, total_processed, net_calls, exit_code,
                   reported>>

\* for name, exe, app_id, grid_id in games: the filter and the list mode.
\* The locals of the previous iteration are dead here (each is assigned again
\* before it is read), so the step clears them.
main_game ==
    /\ pc = "game_loop"
    /\ IF gi > Len(games)
       THEN /\ ui' = ui + 1 /\ pc' = "user_loop"
            /\ UNCHANGED <<gi, reported>>
       ELSE LET g == games[gi]
                u == user_dirs[ui]
            IN  IF filtered_out(args.game_name, g.name)
                THEN gi' = gi + 1 /\ UNCHANGED <<ui, pc, reported>>
                ELSE IF list_mode(args)
                THEN /\ gi' = gi + 1
                     /\ reported' =
                          IF grid[u].exists
                          THEN Append(reported,
                                      [user |-> u, app_id |-> g.app_id,
                                       files |-> sorted(glob_app_id(grid[u].names, g.app_id))])
                          ELSE reported
                     /\ UNCHANGED <<ui, pc>>
                ELSE pc' = "search" /\ UNCHANGED <<ui, gi, reported>>
    /\ game_id' = NoId /\ urls' = NoUrls /\ success_count' = 0
    /\ attempted' = {} /\ written' = {} /\ saved' = {}
    /\ UNCHANGED <<fsVars, grid, ret, vdf, entries, matches, games, steam_path,
                   user_dirs, total_processed, net_calls, exit_code, visited>>

\* game_id = sgdb.search_game(name); if not game_id: continue
main_search ==
    /\ pc = "search"
    /\ \E r \in SearchResults :
          /\ game_id' = r
          /\ IF truthy_int(r)
             THEN pc' = "lookup" /\ gi' = gi
             ELSE pc' = "game_loop" /\ gi' = gi + 1
    /\ net_calls' = net_calls \cup {"search"}
    /\ UNCHANGED <<fsVars, grid, ret, vdf, entries, matches, games, steam_path,
                   user_dirs, ui, urls, success_count, attempted, written, saved,
                   total_processed, exit_code, visited, reported>>

\* the three lookups; if not grid_url: continue
main_lookup ==
    /\ pc = "lookup"
    /\ \E g \in UrlResults, h \in UrlResults, l \in UrlResults :
          /\ urls' = [grid |-> g, hero |-> h, logo |-> l]
          /\ IF ~truthy_str(g)
             THEN pc' = "game_loop" /\ gi' = gi + 1
             ELSE pc' = "dl_grid" /\ gi' = gi
    /\ net_calls' = net_calls \cup {"grids", "heroes", "logos"}
    /\ success_count' = 0
    /\ attempted' = {} /\ written' = {} /\ saved' = {}
    /\ UNCHANGED <<fsVars, grid, ret, vdf, entries, matches, games, steam_path,
                   user_dirs, ui, game_id, total_processed, exit_code, visited,
                   reported>>

\* if <url>: download_image(<url>, grid_path / <file>); success_count += 1
Download(from, to, cat, file) ==
    /\ pc = from
    /\ pc' = to
    /\ IF truthy_str(urls[cat])
       THEN \E o \in DownloadOutcomes :
              LET u == user_dirs[ui]
                  d == download_image(o, grid[u], file)
              IN  /\ grid' = [grid EXCEPT ![u] = d.dir]
                  /\ net_calls' = net_calls \cup {"download"}
                  /\ attempted' = attempted \cup {cat}
                  /\ written' = IF d.opened THEN written \cup {file} ELSE written
                  /\ saved' = IF d.ok THEN saved \cup {cat} ELSE saved
                  /\ success_count' = IF d.ok THEN success_count + 1 ELSE success_count
       ELSE UNCHANGED <<grid, net_calls, attempted, written, saved, success_count>>
    /\ UNCHANGED <<fsVars, ret, vdf, entries, matches, games, steam_path,
                   user_dirs, ui, gi, game_id, urls, total_processed, exit_code,
                   visited, reported>>

main_download_grid == Download("dl_grid", "dl_hero", "grid", grid_file(games[gi].app_id))
main_download_hero == Download("dl_hero", "dl_logo", "hero", hero_file(games[gi].app_id))
main_download_logo == Download("dl_logo", "tally", "logo", logo_file(games[gi].app_id))

\* if success_count > 0: total_processed += 1
main_tally ==
    /\ pc = "tally"
    /\ total_processed' = IF success_count > 0 THEN total_processed + 1
                          ELSE total_processed
    /\ gi' = gi + 1
    /\ pc' = "game_loop"
    /\ UNCHANGED <<fsVars, grid, ret, vdf, entries, matches, games, steam_path,
                   user_dirs, ui, gameVars, net_calls, exit_code, visited, reported>>

\* the summary; return 0
main_summary ==
    /\ pc = "summary"
    /\ exit_code' = summary_exit(total_processed)
    /\ pc' = "done"
    /\ UNCHANGED <<fsVars, grid, ret, vdf, entries, matches, games, steam_path,
                   user_dirs, ui, gi, gameVars, total_processed, net_calls,
                   visited, reported>>

Init ==
    /\ pc = "main" /\ ret = "main_games"
    /\ \E inst \in Installs, gn \in GameNames, ls \in BOOLEAN :
          /\ args = [steam_path |-> inst.arg, game_name |-> gn, list_shortcuts |-> ls]
          /\ fs_exists = inst.exists
          /\ fs_userdata_at = inst.userdata_at
    /\ userdata \in Listings
    /\ grid = [i \in 1..Len(userdata) |-> userdata[i].grid]
    /\ grid0 = grid
    /\ vdf = VdfAbsent /\ entries = <<>> /\ matches = <<>> /\ games = <<>>
    /\ IdleMain

Next ==
    \/ main_init \/ main_users \/ main_user
    \/ gnsg_is_file \/ gnsg_read \/ gnsg_decode \/ gnsg_return
    \/ main_games \/ main_game \/ main_search \/ main_lookup
    \/ main_download_grid \/ main_download_hero \/ main_download_logo
    \/ main_tally \/ main_summary

Spec == Init /\ [][Next]_vars


(***************************************************************************)
(* Properties                                                              *)
(***************************************************************************)
Range(f) == {f[i] : i \in DOMAIN f}

\* The three fields of a record the properties compare.
Fields(g) == [name |-> g.name, exe |-> g.exe, app_id |-> g.app_id]

\* <appid><suffix>, spelled out
ArtName(a, suffix) == str_int(a) \o suffix

\* An entry as the data model describes it: name and exe are non-empty, valid
\* UTF-8, without NUL or 0x08 bytes.
PlainValue(v) == v # <<>> /\ decode_utf8(v).ok /\ 0 \notin Range(v) /\ 8 \notin Range(v)
WellFormedEntry(e) == PlainValue(e.name) /\ PlainValue(e.exe)

\* Little-endian value of 4 bytes, written out.
LE32(b) == b[1] + b[2] * 256 + b[3] * 256 * 256 + b[4] * 256 * 256 * 256

\* C1: a container of N well-formed entries yields exactly N records, the i-th
\* carrying the appid, name and exe of the i-th entry, whatever the appid bytes
\* and the optional-field region hold.
C1_OneRecordPerEntry ==
    (/\ pc = "returned"
     /\ vdf = VdfFile(Container(entries))
     /\ \A i \in 1..Len(entries) : WellFormedEntry(entries[i]))
    => /\ Len(games) = Len(entries)
       /\ \A i \in 1..Len(entries) :
             Fields(games[i]) = [name |-> decode_utf8(entries[i].name).cps,
                                 exe |-> decode_utf8(entries[i].exe).cps,
                                 app_id |-> LE32(entries[i].appid)]

Decodable(m) == decode_utf8(m.name).ok /\ decode_utf8(m.exe).ok

RECURSIVE RecordsOf(_)
RecordsOf(ms) ==
    IF ms = <<>> THEN <<>>
    ELSE (IF Decodable(Head(ms))
          THEN <<[name |-> decode_utf8(Head(ms).name).cps,
                  exe |-> decode_utf8(Head(ms).exe).cps,
                  app_id |-> LE32(Head(ms).appid)]>>
          ELSE <<>>) \o RecordsOf(Tail(ms))

\* C2: when several entries match and exactly one of them has a name or exe
\* that is not valid UTF-8, only that entry is dropped; the records of the
\* others are returned in file order.
C2_OnlyUndecodableDropped ==
    (pc = "returned" /\ vdf.kind = "file") =>
       LET ms == findall(vdf.bytes)
           bad == {i \in 1..Len(ms) : ~Decodable(ms[i])}
       IN  (Len(ms) >= 2 /\ Cardinality(bad) = 1)
           => [i \in 1..Len(games) |-> Fields(games[i])] = RecordsOf(ms)

NoShortcutsFile(f) == f.kind \in {"absent", "unreadable"} \/ f.bytes = <<>>

NumericDirs == SelectSeq([i \in 1..Len(userdata) |-> i],
                         LAMBDA i : userdata[i].is_dir /\ isdigit(userdata[i].name))

\* C3: a user whose shortcuts.vdf is absent, empty or unreadable contributes
\* zero shortcuts, no exception escapes, and a run that reaches the user loop
\* visits every numeric user directory.
C3_BadFileIsZeroShortcuts ==
    /\ pc # "crashed"
    /\ \A i \in 1..Len(visited) :
          NoShortcutsFile(userdata[visited[i].user].vdf) => visited[i].games = <<>>
    /\ (pc = "done" /\ exit_code = Code(0))
       => [i \in 1..Len(visited) |-> visited[i].user] = NumericDirs

C3_Witness ==
    /\ pc = "done"
    /\ \E i, j \in 1..Len(visited) :
          /\ i < j
          /\ userdata[visited[i].user].vdf.kind = "unreadable"
          /\ visited[j].games # <<>>

Categories == {"grid", "hero", "logo"}

\* C4: for a game found by the search, every category whose lookup returned a
\* URL is downloaded, whatever the other lookups returned.
C4_CategoriesIndependent ==
    (pc \in {"game_loop", "tally"} /\ truthy_int(game_id))
    => \A c \in Categories : truthy_str(urls[c]) => c \in attempted

AllFound ==
    /\ pc = "tally"
    /\ truthy_int(game_id)
    /\ \A c \in Categories : truthy_str(urls[c])
    /\ saved = Categories

C6_ListModeReadOnly ==
    args.list_shortcuts => (net_calls = {} /\ grid = grid0)

C6_Witness ==
    /\ args.list_shortcuts
    /\ pc = "done"
    /\ \E i \in 1..Len(reported) : reported[i].files # <<>>

NoInstallationRoot ==
    /\ args.steam_path = None
    /\ \A i \in 1..Len(possible_paths) : possible_paths[i] \notin fs_exists

NoUserDirectory == steam_path # fs_userdata_at \/ NumericDirs = <<>>

\* C7: main returns non-zero only on a fatal error (no installation root);
\* every run that gets past setup returns 0, also with zero users.
C7_NonZeroOnlyFatal ==
    pc = "done" => (exit_code.val # 0 <=> NoInstallationRoot)

\* C7 (amended): main returns 1 when no installation root or no user
\* directory is found, and 0 in every other run.
C7_ExitCode ==
    pc = "done" =>
       /\ exit_code.some
       /\ exit_code.val = (IF NoInstallationRoot \/ NoUserDirectory THEN 1 ELSE 0)

C7_Witness ==
    /\ pc = "done"
    /\ exit_code = Code(0)
    /\ total_processed = 0
    /\ ~args.list_shortcuts
    /\ visited # <<>>
    /\ \A i \in 1..Len(visited) : visited[i].games = <<>>

\* The scenario entry: appid 94 AA 04 00, "Hollow Knight", the exe path, laid
\* out with a string field first after exe and no 0x08 byte in its tags.
HollowKnightEntry(e) ==
    /\ e.appid = <<148, 170, 4, 0>>
    /\ e.name = b_HollowKnight
    /\ e.exe = b_usr_bin_hollow_knight

StringFieldFirst(e) == e.opt # <<>> /\ Head(e.opt) = 1 /\ 8 \notin Range(e.tags)

ScenarioReturned ==
    /\ pc = "returned"
    /\ Len(entries) = 1
    /\ vdf = VdfFile(Container(entries))
    /\ HollowKnightEntry(entries[1])
    /\ StringFieldFirst(entries[1])

\* C8: the scenario container yields one record with applicationId 305620.
C8_AppId305620 ==
    ScenarioReturned =>
       [i \in 1..Len(games) |-> Fields(games[i])]
          = <<[name |-> b_HollowKnight, exe |-> b_usr_bin_hollow_knight,
               app_id |-> 305620]>>

\* C8 (amended): the scenario container yields one record with applicationId
\* 305812, the little-endian value of 94 AA 04 00.
C8_AppId305812 ==
    ScenarioReturned =>
       [i \in 1..Len(games) |-> Fields(games[i])]
          = <<[name |-> b_HollowKnight, exe |-> b_usr_bin_hollow_knight,
               app_id |-> 305812]>>

C8_Witness == ScenarioReturned /\ Len(games) = 1 /\ entries[1].opt = opt_StartDir

\* C9: the files listed for application ID A are exactly the files of the grid
\* directory named A.png, Ap.png, A_hero.png or A_logo.png.
C9_ListedFilesBelongToAppId ==
    \A i \in 1..Len(reported) :
       LET r == reported[i]
           own == {ArtName(r.app_id, sfx) :
                      sfx \in {c_png, c_p_png, c_hero_png, c_logo_png}}
       IN  Range(r.files) = grid0[r.user].names \cap own

\* Bytes of s from position p up to the first NUL at or after p.
UpToNul(s, p) ==
    LET nuls == {i \in p..Len(s) : s[i] = 0}
    IN  IF nuls = {} THEN SubSeq(s, p, Len(s)) ELSE SubSeq(s, p, Min(nuls) - 1)

\* Position after the first occurrence of the literal lit in s (0: none).
After(s, lit) ==
    LET at == {i \in 1..Len(s) : Lit(s, i, lit)}
    IN  IF at = {} THEN 0 ELSE Min(at) + Len(lit)

\* C10: the name and exe of a returned record are the bytes between the key
\* literal and the first NUL after it; none contains a NUL byte.
C10_ValuesEndAtFirstNul ==
    pc = "returned" =>
       /\ \A i \in 1..Len(games) :
             0 \notin Range(games[i].name) /\ 0 \notin Range(games[i].exe)
       /\ (Len(entries) = 1 /\ Len(games) = 1 /\ vdf = VdfFile(Container(entries)))
          => /\ games[1].name
                  = decode_utf8(UpToNul(vdf.bytes, After(vdf.bytes, K_appname))).cps
             /\ games[1].exe
                  = decode_utf8(UpToNul(vdf.bytes,
                                        After(vdf.bytes, <<1>> \o b_exe \o <<0>>))).cps

====
